---- MODULE Spec2Model ----
(***************************************************************************)
(* A model of twinsights: the crawl scheduler and its cursor state         *)
(* machine (crawler/), the raw object store (crawler/data.py) and the      *)
(* normalized entity store with its merge rules (analytics/data.py).       *)
(*                                                                         *)
(* Nine specifications share the module:                                   *)
(*   Spec       the crawler process: start-up and restore, scheduler       *)
(*              rounds, page fetches, crashes and restarts;                *)
(*   SpecRaw    CrawledDataStore.add applied to arbitrary raw objects;     *)
(*   SpecMerge  AnalyticDataStore.add_or_update applied to a feed of       *)
(*              snapshots;                                                 *)
(*   SpecSched  the scheduler loop of CrawlerApp.crawl under a wall clock, *)
(*              with the outcome of each crawl() as an input;              *)
(*   SpecUsers  TwitterUserCrawler.crawl over the unexpanded users of a    *)
(*              store, with its session and the provider's errors;         *)
(*   SpecPace   the crawler process under the wall clock: the scheduler,   *)
(*              the page requests of crawl() and its sleeps;               *)
(*   SpecRestore  restore_query_metadata applied to arbitrary Query        *)
(*              objects and records;                                       *)
(*   SpecEtl    the ETL pass over a raw store, run repeatedly;             *)
(*   SpecTerm   the crawler process over a provider that gains no status   *)
(*              and raises no error, under fair scheduling.                *)
(***************************************************************************)
EXTENDS Integers, Sequences, FiniteSets, TLC

(* ------------------------------ bounds -------------------------------- *)

\* Native status ids the provider may ever assign: 1..MaxId.
MaxId == 3

\* Size of one result page (the code asks for count=500; scaled down).
PageSize == 2

\* Native ids of the objects handed to the raw store in SpecRaw: 1..RawIds.
RawIds == 1

\* How many times in a row SpecRaw adds the same object.
MaxReps == 3

\* How many add_or_update calls SpecMerge makes.
MaxLog == 3

\* The clock of SpecSched runs from 0 to MaxTime.
MaxTime == 7

\* The clock of SpecPace runs from 0 to PaceTime.
PaceTime == 10

\* How many ETL passes SpecEtl runs to their end.
MaxPasses == 3

\* The length of a day in clock ticks (86400 seconds, scaled down).
Day == 4

\* TwitterUserCrawler stops paging a timeline once it stored this many statuses.
TimelineCap == 1000

(* --------------------------- cursor values ---------------------------- *)

\* A cursor field is None, one of the two sentinel strings, or a native id.
\* The code keeps a native id as an int in memory and as its decimal string
\* in the String column; int() reads both, so both are Num(n) here.
Null == [tag |-> "None", val |-> 0]

Undefined == [tag |-> "undefined", val |-> 0]

Finished == [tag |-> "finished", val |-> 0]

Num(n) == [tag |-> "id", val |-> n]

Tasks == {1, 2}

TaskQueries(t) == IF t = 1 THEN <<1, 2>> ELSE <<3>>

Queries == {1, 2, 3}

TaskLanguage == "en"

\* Project.__init__: every Query starts with both cursors 'undefined'.
NewQuery == [since_id |-> Undefined, max_id |-> Undefined]

(* ----------------------------- provider ------------------------------- *)

StatusIds == 1..MaxId

\* The author of a status: native user ids share the number space of
\* status ids (status 1 and user 1 are different objects).
Author(i) == ((i - 1) % 2) + 1

\* detect_language(full_text), falling back to status['lang'] on 'und'.
ResolvedLang(i) == IF i % 3 = 0 THEN "fr" ELSE IF i % 3 = 2 THEN "und" ELSE "en"

\* Which statuses a query's text matches: query 1 the odd ids, query 2 the
\* even ids, query 3 all of them.
Matches(q, i) == IF q = 1 THEN i % 2 = 1 ELSE IF q = 2 THEN i % 2 = 0 ELSE TRUE

SetMax(S) == CHOOSE m \in S : \A x \in S : x <= m

RECURSIVE MostRecent(_, _)
\* The (at most) n greatest ids of S, most recent first.
MostRecent(S, n) ==
    IF S = {} \/ n = 0 THEN <<>>
    ELSE <<SetMax(S)>> \o MostRecent(S \ {SetMax(S)}, n - 1)

\* The provider's search: max_id is inclusive, since_id is exclusive,
\* result_type 'recent' returns the newest matches first.
SearchTweets(avail, q, opts) ==
    LET admitted == {i \in avail :
                        /\ Matches(q, i)
                        /\ (opts.max_id # {} => \A m \in opts.max_id : i <= m)
                        /\ (opts.since_id # {} => \A s \in opts.since_id : i > s)}
    IN MostRecent(admitted, PageSize)

(* -------------------------- raw object ids ---------------------------- *)

\* f'Twitter::status::{item_id}' / f'Twitter::user::{item_id}', as the
\* sequence of the parts the f-string joins with '::'.
MutCrawlIdNoKind(item_id, is_status) == <<"Twitter", "user", item_id>>

make_crawl_id(item_id, is_status) ==
    IF is_status THEN <<"Twitter", "status", item_id>>
    ELSE <<"Twitter", "user", item_id>>

(* --------------------------- raw data table --------------------------- *)

\* A CrawledObject handed to the store: `given` names the nullable columns
\* the caller set (expanded, user_id); the others are always set.
CrawledObject(id, api, document, lang) ==
    [id |-> id, api |-> api, document |-> document, detected_lang |-> lang,
     expanded |-> FALSE, user_id |-> {}, given |-> {}]

Find(table, id) == {r \in table : r.id = id}

MutMergeObjectKeepsKeys(table, obj) ==
    LET cur == Find(table, obj.id)
        old == CHOOSE r \in cur : TRUE
        row == [id |-> obj.id, api |-> obj.api,
                document |-> IF cur # {} /\ "friends" \in DOMAIN old.document
                                /\ "friends" \notin DOMAIN obj.document
                             THEN [k \in DOMAIN old.document |->
                                      IF k \in DOMAIN obj.document
                                      THEN obj.document[k] ELSE old.document[k]]
                             ELSE obj.document,
                detected_lang |-> obj.detected_lang,
                expanded |-> IF "expanded" \in obj.given THEN obj.expanded
                             ELSE IF cur = {} THEN FALSE ELSE old.expanded,
                user_id |-> IF "user_id" \in obj.given THEN obj.user_id
                            ELSE IF cur = {} THEN {} ELSE old.user_id]
    IN (table \ cur) \cup {row}

\* session.merge(obj) followed by the flush of a commit: looks the row up
\* by primary key; copies every attribute the caller set onto it; a new
\* row takes the column defaults (expanded = False, user_id = NULL) for
\* what the caller left unset.
MergeObject(table, obj) ==
    LET cur == Find(table, obj.id)
        old == CHOOSE r \in cur : TRUE
        row == [id |-> obj.id, api |-> obj.api, document |-> obj.document,
                detected_lang |-> obj.detected_lang,
                expanded |-> IF "expanded" \in obj.given THEN obj.expanded
                             ELSE IF cur = {} THEN FALSE ELSE old.expanded,
                user_id |-> IF "user_id" \in obj.given THEN obj.user_id
                            ELSE IF cur = {} THEN {} ELSE old.user_id]
    IN (table \ cur) \cup {row}

MutAddSeenFlag(table, obj) ==
    LET cur == Find(table, obj.id)
        o == IF obj.api = "TwitterUser"
             THEN [obj EXCEPT !.expanded = cur # {},
                              !.given = @ \cup {"expanded"}]
             ELSE obj
    IN MergeObject(table, o)

Add(table, obj) ==
    LET cur == Find(table, obj.id)
        o == IF obj.api = "TwitterUser"
             THEN [obj EXCEPT !.expanded = IF cur = {} THEN FALSE
                                           ELSE (CHOOSE r \in cur : TRUE).expanded,
                              !.given = @ \cup {"expanded"}]
             ELSE obj
    IN MergeObject(table, o)

(* ------------------------ query_metadata table ------------------------ *)

\* Query.to_metadata
to_metadata(q, cursor) ==
    [id |-> q, since_id |-> cursor.since_id, max_id |-> cursor.max_id]

\* update_query_metadata: session.merge of the row, by primary key.
update_query_metadata(table, qm) == (table \ Find(table, qm.id)) \cup {qm}

MutRestoreDropFinished(cursor, qm) ==
    [since_id |-> IF cursor.since_id = Undefined THEN qm.since_id ELSE cursor.since_id,
     max_id |-> IF qm.max_id = Finished THEN Null ELSE qm.max_id]

\* restore_query_metadata, the branch of a persisted record qm
RestoreFound(cursor, qm) ==
    LET m1 == IF cursor.max_id # Null /\ cursor.max_id = Undefined
              THEN qm.max_id ELSE Null
    IN IF m1 # Null /\ cursor.since_id = Undefined
       THEN [since_id |-> qm.since_id, max_id |-> m1]
       ELSE [since_id |-> cursor.since_id, max_id |-> Null]

MutRestoreNewKeepsUndefined(cursor) == cursor

\* restore_query_metadata, the branch of an unseen Query id
RestoreNew(cursor) ==
    [since_id |-> IF cursor.since_id = Undefined THEN Null ELSE cursor.since_id,
     max_id |-> IF cursor.max_id = Undefined THEN Null ELSE cursor.max_id]

\* The in-memory cursor of query q after restore_query_metadata
RestoredCursor(table, q, cursor) ==
    IF Find(table, q) = {} THEN RestoreNew(cursor)
    ELSE RestoreFound(cursor, CHOOSE r \in Find(table, q) : TRUE)

\* The table after restore_query_metadata over all queries of all tasks
RestoredTable(table, cursors) ==
    table \cup {to_metadata(q, RestoreNew(cursors[q])) :
                    q \in {p \in Queries : Find(table, p) = {}}}

(* ------------------------------ state --------------------------------- *)

VARIABLES
    \* --- the crawler process (Spec) ---
    provider,      \* native ids of the statuses the provider's search holds
    qmeta,         \* the durable query_metadata table
    data,          \* the durable data table of raw objects
    pc,            \* "down" | "started" | "round" | "crawl"
    historical,    \* the mode of this run (the CLI flag)
    mem,           \* the in-memory cursor of every Query object
    crawlers,      \* the scheduler's working set, in order
    idx,           \* position of the for loop over crawlers
    next_step,     \* the crawlers kept for the next round
    last_run,      \* per task: whether last_run has been stamped
    qleft,         \* inside crawl(): the queries the for loop has yet to visit
    num_processed, \* inside crawl(): its counter
    call,          \* the API request issued by the latest step, or NoCall
    hist_finished, \* history: queries whose max_id was 'finished' when a
                   \* round of a historical run was committed
    err,           \* the class of the API error that ended the process, or "none"
    \* --- the raw store alone (SpecRaw) ---
    raw,           \* a data table
    raw_last,      \* the object of the latest add
    raw_once,      \* the table after the first of the latest equal adds
    raw_reps,      \* how many times in a row raw_last has been added
    \* --- the analytic store (SpecMerge) ---
    feed,          \* the two snapshots handed to add_or_update
    adb,           \* the users and posts tables
    before,        \* the tables before the latest call
    mirror,        \* the tables after the same calls with the feed swapped
    log,           \* which snapshot of the feed each call so far ingested
    \* --- the scheduler under a clock (SpecSched) ---
    now,           \* the wall clock, datetime.now()
    ran_at,        \* per task: the time last_run holds, None as {}
    seen,          \* history: <<task, outcome>> of every crawler the for
                   \* loop of this round has considered so far
    retired,       \* history: tasks whose crawl() returned False in this process
    \* --- the user-timeline crawler (SpecUsers) ---
    u_db,          \* the durable data table
    u_sess,        \* the data table as the session holds it, pending changes included
    u_pc,          \* "idle" | "next" | "timeline" | "friends" | "done" | "exited"
    u_todo,        \* native ids of the users the for loop has yet to visit
    u_left,        \* statuses of the current user's timeline not yet paged
    u_count,       \* count: statuses of the current user stored so far
    \* --- the page requests under a clock (SpecPace) ---
    req_at,        \* history, per query: the last two page requests of this
                   \* process, each with its time and whether its page was empty
    \* --- the ETL pass (SpecEtl) ---
    etl_pc,        \* "idle" | "user" | "post": where the etl command stands
    etl_left,      \* native ids of the raw statuses the pass has yet to process
    etl_pass       \* history: how many passes have run to their end

crawlVars == <<provider, qmeta, data, pc, historical, mem, crawlers, idx,
               next_step, last_run, qleft, num_processed, call, hist_finished, err>>

rawVars == <<raw, raw_last, raw_once, raw_reps>>

mergeVars == <<feed, adb, before, mirror, log>>

schedVars == <<now, ran_at, seen, retired>>

userVars == <<u_db, u_sess, u_pc, u_todo, u_left, u_count>>

paceVars == <<req_at>>

etlVars == <<etl_pc, etl_left, etl_pass>>

vars == <<crawlVars, rawVars, mergeVars, schedVars, userVars, paceVars, etlVars>>

NoCall == [q |-> 0, max_id |-> {}, since_id |-> {}]

(* --------------------------- TweepyCrawler ---------------------------- *)

\* TweepyCrawler._has_more
MutHasMoreAlways(hist, cursor) == TRUE

_has_more(hist, cursor) ==
    IF hist THEN cursor.max_id = Null \/ cursor.max_id # Finished ELSE TRUE

MutSearchOptionsNoBoundary(hist, cursor) == [max_id |-> {}, since_id |-> {}]

MutSearchOptionsInclusive(hist, cursor) ==
    [max_id |-> IF hist /\ cursor.max_id # Null /\ cursor.max_id # Undefined
                THEN {cursor.max_id.val} ELSE {},
     since_id |-> IF ~hist /\ cursor.since_id # Null /\ cursor.since_id # Undefined
                  THEN {cursor.since_id.val + 1} ELSE {}]

\* The max_id / since_id options of TweepyCrawler.__next_results
SearchOptions(hist, cursor) ==
    [max_id |-> IF hist /\ cursor.max_id # Null /\ cursor.max_id # Undefined
                THEN {cursor.max_id.val - 1} ELSE {},
     since_id |-> IF ~hist /\ cursor.since_id # Null /\ cursor.since_id # Undefined
                  THEN {cursor.since_id.val + 1} ELSE {}]

MutProcessStatusNoAdd(table, i) == table

\* TweepyCrawler.__process_status: the language filter, the two adds and
\* the commit.
process_status(table, i) ==
    LET lang == ResolvedLang(i)
    IN IF TaskLanguage # "" /\ lang # TaskLanguage /\ lang # "und" THEN table
       ELSE LET crawled_status ==
                    CrawledObject(make_crawl_id(i, TRUE), "TwitterStatus",
                                  [id |-> i, user |-> [id |-> Author(i)]], lang)
                crawled_user ==
                    CrawledObject(make_crawl_id(Author(i), FALSE), "TwitterUser",
                                  [id |-> Author(i)], "en")
            IN Add(Add(table, crawled_status), crawled_user)

MutUpdateNextLastWins(hist, i, next_max_id, next_since_id) ==
    <<IF hist THEN Num(i) ELSE Finished, IF hist THEN Finished ELSE Num(i)>>

\* TweepyCrawler.__update_next_and_since
update_next_and_since(hist, i, next_max_id, next_since_id) ==
    LET nm == IF hist /\ (next_max_id = Null \/ i < next_max_id.val)
              THEN Num(i) ELSE next_max_id
        ns == IF ~hist /\ (next_since_id = Null \/ i > next_since_id.val)
              THEN Num(i) ELSE next_since_id
    IN <<IF nm = Null THEN Finished ELSE nm, IF ns = Null THEN Finished ELSE ns>>

RECURSIVE ProcessBatch(_, _, _, _)
\* The loop of crawl() over one non-empty result page: the table and the
\* pair (next_max_id, next_since_id) after it.
ProcessBatch(hist, results, table, nxt) ==
    IF results = <<>> THEN [table |-> table, nxt |-> nxt]
    ELSE ProcessBatch(hist, Tail(results), process_status(table, Head(results)),
                      update_next_and_since(hist, Head(results), nxt[1], nxt[2]))

\* The cursor of the query after a non-empty page (twitter.py 204-207)
CursorAfterBatch(hist, cursor, nxt) ==
    IF hist THEN [cursor EXCEPT !.max_id = nxt[1]]
    ELSE IF nxt[2] # Finished THEN [cursor EXCEPT !.since_id = nxt[2]]
    ELSE cursor

(* ------------------------ actions of the process ---------------------- *)

\* The variables of the other two specifications stay as they are.
OthersIdle ==
    UNCHANGED <<raw, raw_last, raw_once, raw_reps, feed, adb, before, mirror, log,
                now, ran_at, seen, retired, userVars, paceVars, etlVars>>

CrawlOnly == OthersIdle /\ UNCHANGED err

Volatile ==
    /\ crawlers' = <<>> /\ idx' = 1 /\ next_step' = <<>>
    /\ last_run' = [t \in Tasks |-> FALSE]
    /\ qleft' = <<>> /\ num_processed' = 0 /\ call' = NoCall

\* A process starts: Project.__init__ builds the tasks with fresh Query
\* objects, and Project.crawl_db opens the store and restores every task.
Startup(h) ==
    /\ OthersIdle
    /\ err' = "none"
    /\ pc = "down"
    /\ pc' = "started"
    /\ historical' = h
    /\ mem' = [q \in Queries |-> RestoredCursor(qmeta, q, NewQuery)]
    /\ qmeta' = RestoredTable(qmeta, [q \in Queries |-> NewQuery])
    /\ Volatile
    /\ UNCHANGED <<provider, data, hist_finished>>

\* CrawlerApp.crawl: the list of crawlers, one per task
BuildCrawlers ==
    /\ CrawlOnly
    /\ pc = "started"
    /\ pc' = "round"
    /\ crawlers' = <<1, 2>>
    /\ idx' = 1
    /\ next_step' = <<>>
    /\ call' = NoCall
    /\ UNCHANGED <<provider, qmeta, data, historical, mem, last_run, qleft,
                   num_processed, hist_finished>>

\* The scheduler meets a crawler that is in timeout: kept, not invoked.
\* Crawler.in_timeout is false while last_run is None; once stamped, its
\* answer depends on the clock, which is left open here.
SkipInTimeout ==
    /\ CrawlOnly
    /\ pc = "round" /\ idx <= Len(crawlers)
    /\ last_run[crawlers[idx]]
    /\ next_step' = Append(next_step, crawlers[idx])
    /\ idx' = idx + 1
    /\ call' = NoCall
    /\ UNCHANGED <<provider, qmeta, data, pc, historical, mem, crawlers,
                   last_run, qleft, num_processed, hist_finished>>

\* The scheduler invokes crawl() of the crawler at idx.
BeginCrawl ==
    /\ CrawlOnly
    /\ pc = "round" /\ idx <= Len(crawlers)
    /\ pc' = "crawl"
    /\ qleft' = TaskQueries(crawlers[idx])
    /\ num_processed' = 0
    /\ call' = NoCall
    /\ UNCHANGED <<provider, qmeta, data, historical, mem, crawlers, idx,
                   next_step, last_run, hist_finished>>

\* One iteration of the for loop of crawl(): a query the filter drops.
SkipQuery ==
    /\ CrawlOnly
    /\ pc = "crawl" /\ qleft # <<>>
    /\ ~_has_more(historical, mem[Head(qleft)])
    /\ qleft' = Tail(qleft)
    /\ call' = NoCall
    /\ UNCHANGED <<provider, qmeta, data, pc, historical, mem, crawlers, idx,
                   next_step, last_run, num_processed, hist_finished>>

\* One iteration of the for loop of crawl(): a page request and what
\* follows it.
CrawlPage ==
    /\ CrawlOnly
    /\ pc = "crawl" /\ qleft # <<>>
    /\ _has_more(historical, mem[Head(qleft)])
    /\ LET q == Head(qleft)
           opts == SearchOptions(historical, mem[q])
           results == SearchTweets(provider, q, opts)
           done == ProcessBatch(historical, results, data, <<Null, Null>>)
           cursor == CursorAfterBatch(historical, mem[q], done.nxt)
       IN /\ call' = [q |-> q, max_id |-> opts.max_id, since_id |-> opts.since_id]
          /\ IF Len(results) > 0
             THEN /\ data' = done.table
                  /\ mem' = [mem EXCEPT ![q] = cursor]
                  /\ qmeta' = update_query_metadata(qmeta, to_metadata(q, cursor))
                  /\ num_processed' = num_processed + 1
             ELSE /\ mem' = [mem EXCEPT ![q].max_id = Finished]
                  /\ UNCHANGED <<data, qmeta, num_processed>>
    /\ qleft' = Tail(qleft)
    /\ UNCHANGED <<provider, pc, historical, crawlers, idx, next_step, last_run,
                   hist_finished>>

\* crawl() returns num_processed > 0; the scheduler keeps the crawler and
\* stamps last_run, or retires it.
EndCrawl ==
    /\ CrawlOnly
    /\ pc = "crawl" /\ qleft = <<>>
    /\ pc' = "round"
    /\ IF num_processed > 0
       THEN /\ next_step' = Append(next_step, crawlers[idx])
            /\ last_run' = [last_run EXCEPT ![crawlers[idx]] = TRUE]
       ELSE UNCHANGED <<next_step, last_run>>
    /\ idx' = idx + 1
    /\ num_processed' = 0
    /\ call' = NoCall
    /\ UNCHANGED <<provider, qmeta, data, historical, mem, crawlers, qleft,
                   hist_finished>>

\* The end of a round: the working set becomes next_step, the store is
\* committed; with an empty working set the loop ends and the process exits.
EndRound ==
    /\ CrawlOnly
    /\ pc = "round" /\ idx > Len(crawlers)
    /\ IF next_step = <<>>
       THEN /\ pc' = "down"
            /\ historical' = FALSE
            /\ mem' = [q \in Queries |-> NewQuery]
            /\ Volatile
       ELSE /\ crawlers' = next_step
            /\ next_step' = <<>>
            /\ idx' = 1
            /\ call' = NoCall
            /\ UNCHANGED <<pc, historical, mem, last_run, qleft, num_processed>>
    /\ hist_finished' =
          IF historical
          THEN hist_finished \cup {q \in Queries : mem[q].max_id = Finished}
          ELSE hist_finished
    /\ UNCHANGED <<provider, qmeta, data>>

\* The process is killed: only the two durable tables survive.
Crash ==
    /\ CrawlOnly
    /\ pc \in {"started", "round", "crawl"}
    /\ pc' = "down"
    /\ historical' = FALSE
    /\ mem' = [q \in Queries |-> NewQuery]
    /\ Volatile
    /\ UNCHANGED <<provider, qmeta, data, hist_finished>>

\* The process is killed inside the loop of crawl() over a result page,
\* after k of its statuses went through __process_status (each with its
\* own commit) and before the commit of the cursor at the end of the page.
CrashInPage(k) ==
    /\ CrawlOnly
    /\ pc = "crawl" /\ qleft # <<>>
    /\ _has_more(historical, mem[Head(qleft)])
    /\ LET q == Head(qleft)
           opts == SearchOptions(historical, mem[q])
           results == SearchTweets(provider, q, opts)
       IN /\ k <= Len(results)
          /\ data' = ProcessBatch(historical, SubSeq(results, 1, k), data,
                                  <<Null, Null>>).table
    /\ pc' = "down"
    /\ historical' = FALSE
    /\ mem' = [q \in Queries |-> NewQuery]
    /\ Volatile
    /\ UNCHANGED <<provider, qmeta, hist_finished>>

\* How the provider's errors are classified.
ErrorClasses == {"unauthorized", "not_found", "timeout", "unknown"}

\* api.search_tweets raises an error of class e.  crawl() has no handler and
\* neither has CrawlerApp.crawl: the exception leaves the for and while
\* loops, the with block closes the session, and the process ends.  Every
\* add made so far was committed, so the tables are as they were.
FetchFails(e) ==
    /\ OthersIdle
    /\ pc = "crawl" /\ qleft # <<>>
    /\ _has_more(historical, mem[Head(qleft)])
    /\ err' = e
    /\ pc' = "down"
    /\ historical' = FALSE
    /\ mem' = [q \in Queries |-> NewQuery]
    /\ Volatile
    /\ UNCHANGED <<provider, qmeta, data, hist_finished>>

\* A new status appears at the provider, with the next native id.
NewStatus ==
    /\ CrawlOnly
    /\ Cardinality(provider) < MaxId
    /\ provider' = provider \cup {Cardinality(provider) + 1}
    /\ UNCHANGED <<qmeta, data, pc, historical, mem, crawlers, idx, next_step,
                   last_run, qleft, num_processed, call, hist_finished>>

CrawlInit ==
    /\ provider = {}
    /\ qmeta = {}
    /\ data = {}
    /\ pc = "down"
    /\ historical = FALSE
    /\ mem = [q \in Queries |-> NewQuery]
    /\ crawlers = <<>> /\ idx = 1 /\ next_step = <<>>
    /\ last_run = [t \in Tasks |-> FALSE]
    /\ qleft = <<>> /\ num_processed = 0 /\ call = NoCall
    /\ hist_finished = {}
    /\ err = "none"

RawIdle == raw = {} /\ raw_last = {} /\ raw_once = {} /\ raw_reps = 0

EmptyStore == [users |-> {}, posts |-> {}]

MergeIdle ==
    /\ feed = <<>> /\ log = <<>>
    /\ adb = EmptyStore /\ before = EmptyStore /\ mirror = EmptyStore

SchedIdle ==
    /\ now = 0 /\ ran_at = [t \in Tasks |-> {}]
    /\ seen = <<>> /\ retired = {}

UsersIdle ==
    /\ u_db = {} /\ u_sess = {} /\ u_pc = "idle"
    /\ u_todo = <<>> /\ u_left = <<>> /\ u_count = 0

PaceIdle == req_at = [q \in Queries |-> <<>>]

EtlIdle == etl_pc = "idle" /\ etl_left = <<>> /\ etl_pass = 0

Init ==
    CrawlInit /\ RawIdle /\ MergeIdle /\ SchedIdle /\ UsersIdle /\ PaceIdle /\ EtlIdle

Next ==
    \/ \E h \in BOOLEAN : Startup(h)
    \/ BuildCrawlers
    \/ SkipInTimeout
    \/ BeginCrawl
    \/ SkipQuery
    \/ CrawlPage
    \/ EndCrawl
    \/ EndRound
    \/ Crash
    \/ \E k \in 1..PageSize : CrashInPage(k)
    \/ \E e \in ErrorClasses : FetchFails(e)
    \/ NewStatus

Spec == Init /\ [][Next]_vars

(* ------------------------- claims on Spec ----------------------------- *)

Running == pc \in {"started", "round", "crawl"}

CursorOf(r) == [since_id |-> r.since_id, max_id |-> r.max_id]

\* C1: at start-up, for every Query (its task cursor is 'undefined') with a
\* persisted record (S, M), the restored in-memory cursor equals (S, M).
C1_RestorePrecedence ==
    [][(pc = "down" /\ pc' = "started") =>
          \A q \in Queries : \A r \in Find(qmeta, q) : mem'[q] = CursorOf(r)]_vars

\* C2: once a historical crawl has marked a query finished (and the round
\* that did so was committed), in every later state of a running process,
\* this one or a restarted one, its max_id is 'finished', and no step of a
\* historical run requests a page for it.
C2_FinishedTerminal ==
    [][\A q \in hist_finished :
          /\ pc' \in {"started", "round", "crawl"} => mem'[q].max_id = Finished
          /\ ~(historical' /\ call'.q = q /\ call' # call)]_vars

C4_RestoreKeepsFinished ==
    [][(pc = "down" /\ pc' = "started") =>
          \A q \in Queries : \A r \in Find(qmeta, q) :
              r.max_id = Finished => mem'[q].max_id = Finished]_vars

\* The process has just started and a persisted 'finished' was restored.
C4_Witness ==
    /\ pc = "started"
    /\ \E q \in Queries : \E r \in Find(qmeta, q) :
          r.max_id = Finished /\ mem[q].max_id = Finished

Kinds == {TRUE, FALSE}

KindOf(r) == r.api = "TwitterStatus"

\* C39: no persisted cursor record holds the literal 'undefined' in
\* since_id or max_id.
C39_NoLiteralSentinel ==
    \A r \in qmeta : r.since_id # Undefined /\ r.max_id # Undefined

\* C40: a crawl() in incremental mode leaves the in-memory and the persisted
\* max_id of every query as they were, and a crawl() in historical mode
\* the in-memory and the persisted since_id.
C40_DirectionIndependence ==
    [][(pc = "crawl" /\ pc' \in {"crawl", "round"}) =>
          \A q \in Queries :
              IF historical
              THEN /\ mem'[q].since_id = mem[q].since_id
                   /\ \A r \in Find(qmeta, q) : \A r2 \in Find(qmeta', q) :
                          r2.since_id = r.since_id
              ELSE /\ mem'[q].max_id = mem[q].max_id
                   /\ \A r \in Find(qmeta, q) : \A r2 \in Find(qmeta', q) :
                          r2.max_id = r.max_id]_vars

\* C7: make_crawl_id is injective on (kind, native id), and the data table
\* never holds two rows for the same kind and native id.
C7_NoDuplicateRows ==
    /\ \A k1, k2 \in Kinds : \A n1, n2 \in 1..MaxId :
          make_crawl_id(n1, k1) = make_crawl_id(n2, k2) => (k1 = k2 /\ n1 = n2)
    /\ \A r \in data : r.id = make_crawl_id(r.document.id, KindOf(r))
    /\ \A r1, r2 \in data :
          (r1.api = r2.api /\ r1.document.id = r2.document.id) => r1 = r2

\* Status 1 and user 1 are both stored, and status 1 was fetched twice, by
\* query 1 and by query 3 (both historical cursors stand at it).
C7_Witness ==
    /\ \E r \in data : r.api = "TwitterStatus" /\ r.document.id = 1
    /\ \E r \in data : r.api = "TwitterUser" /\ r.document.id = 1
    /\ Running /\ mem[1].max_id = Num(1) /\ mem[3].max_id = Num(1)

(* ----------------------- the raw store alone -------------------------- *)

\* The raw objects a caller may hand to add: either kind, two snapshots of
\* the document, expanded left unset or set either way, user_id left unset
\* or set (the user-timeline crawler sets it on statuses).
RawObjects ==
    {[id |-> make_crawl_id(n, k), api |-> IF k THEN "TwitterStatus" ELSE "TwitterUser",
      document |-> [id |-> n, rev |-> v], detected_lang |-> "en",
      expanded |-> FALSE, user_id |-> {}, given |-> {}] :
        n \in 1..RawIds, k \in BOOLEAN, v \in 1..2}
    \cup
    {[id |-> make_crawl_id(n, k), api |-> IF k THEN "TwitterStatus" ELSE "TwitterUser",
      document |-> [id |-> n, rev |-> v], detected_lang |-> "en",
      expanded |-> e, user_id |-> {}, given |-> {"expanded"}] :
        n \in 1..RawIds, k \in BOOLEAN, v \in 1..2, e \in BOOLEAN}
    \cup
    {[id |-> make_crawl_id(n, TRUE), api |-> "TwitterStatus",
      document |-> [id |-> n, rev |-> v], detected_lang |-> "en",
      expanded |-> FALSE, user_id |-> {n}, given |-> {"user_id"}] :
        n \in 1..RawIds, v \in 1..2}

CrawlIdle ==
    UNCHANGED <<provider, qmeta, data, pc, historical, mem, crawlers, idx,
                next_step, last_run, qleft, num_processed, call, hist_finished,
                err, now, ran_at, seen, retired, userVars, paceVars, etlVars>>

\* A caller adds obj and commits.
RawAdd(obj) ==
    /\ CrawlIdle /\ UNCHANGED mergeVars
    /\ raw' = Add(raw, obj)
    /\ IF raw_last = {obj}
       THEN /\ raw_reps < MaxReps
            /\ raw_reps' = raw_reps + 1
            /\ UNCHANGED <<raw_last, raw_once>>
       ELSE /\ raw_last' = {obj}
            /\ raw_once' = Add(raw, obj)
            /\ raw_reps' = 1

\* TwitterUserCrawler.crawl, its success path for one unexpanded user: the
\* row loaded from the session is modified in place (expanded, friends) and
\* handed to add; the look-up in add returns that same modified object.
RawExpand ==
    /\ CrawlIdle /\ UNCHANGED mergeVars
    /\ \E user \in {r \in raw : r.api = "TwitterUser" /\ ~r.expanded} :
          LET live == [user EXCEPT !.expanded = TRUE,
                                   !.document = [id |-> user.document.id,
                                                 rev |-> user.document.rev,
                                                 friends |-> <<7>>]]
              session == (raw \ {user}) \cup {live}
              obj == [id |-> live.id, api |-> live.api, document |-> live.document,
                      detected_lang |-> live.detected_lang, expanded |-> TRUE,
                      user_id |-> live.user_id, given |-> {"expanded", "user_id"}]
          IN raw' = Add(session, obj)
    /\ raw_last' = {} /\ raw_once' = {} /\ raw_reps' = 0

RawNext ==
    \/ \E obj \in RawObjects : RawAdd(obj)
    \/ RawExpand

SpecRaw == Init /\ [][RawNext]_vars

\* C5: after an object has been added N >= 1 times in a row, the table is
\* the table the first of these adds left (the same row, expanded included).
C5_IdempotentAdd == raw_reps >= 1 => raw = raw_once

\* A user object that does not set expanded was added at least twice over a
\* row that is expanded, and the row kept the flag.
C5_Witness ==
    /\ raw_reps >= 2
    /\ \E o \in raw_last :
          /\ o.api = "TwitterUser"
          /\ "expanded" \notin o.given
          /\ \E r \in Find(raw, o.id) : r.expanded

\* C6: an add over an existing row leaves the row's expanded flag as it was,
\* whatever the incoming object carries and whatever its api kind.
C6_ExpandedPreserved ==
    [][\A o \in raw_last' :
          (raw_last' # raw_last \/ raw_reps' # raw_reps) =>
              \A r \in Find(raw, o.id) : \A r2 \in Find(raw', o.id) :
                  r2.expanded = r.expanded]_vars

\* The step is an add of the object o.
Added(o) == raw_last' = {o} /\ (raw_last' # raw_last \/ raw_reps' # raw_reps)

\* C32: an add of an object whose id has no row stores the object as
\* supplied: its document, language and user_id, and its expanded flag
\* when the caller set it, false otherwise; for either kind of object.
C32_NewRowAsSupplied ==
    [][\A o \in RawObjects :
          (Added(o) /\ Find(raw, o.id) = {}) =>
              \E r \in Find(raw', o.id) :
                  /\ r.api = o.api /\ r.document = o.document
                  /\ r.detected_lang = o.detected_lang /\ r.user_id = o.user_id
                  /\ r.expanded = (IF "expanded" \in o.given THEN o.expanded
                                   ELSE FALSE)]_vars

\* C33: after an add over an existing row the stored document is the
\* incoming document: no key of the previous document outlives it.
C33_DocumentReplaced ==
    [][\A o \in RawObjects :
          (Added(o) /\ Find(raw, o.id) # {}) =>
              \A r \in Find(raw', o.id) : r.document = o.document]_vars

\* A user row that was expanded, its document holding the friends, was
\* added over: the row holds the incoming document, without friends.
C33_Witness ==
    \E o \in raw_last :
        /\ o.api = "TwitterUser"
        /\ \E r \in Find(raw, o.id) :
              /\ r.expanded
              /\ r.document = o.document
              /\ "friends" \notin DOMAIN r.document

\* C37: in every committed state of the raw table a user row with
\* expanded = true holds the friends list in its document.
C37_EnrichmentKept ==
    \A r \in raw :
        (r.api = "TwitterUser" /\ r.expanded) => "friends" \in DOMAIN r.document

(* ------------------------- the analytic store ------------------------- *)

\* Optional values: None is {}, a value x is {x}.  A dict is the set of its
\* <<key, value>> pairs.  A text is the content of its Document: the
\* language processor turns the empty string into a Document, not into None.  hash_tags is kept as the set of its elements (the
\* code rebuilds the list from a set, in no particular order).

\* dict.update: the pairs of `other` replace those of `d` with the same key
DictUpdate(d, other) ==
    other \cup {p \in d : ~\E p2 \in other : p2[1] = p[1]}

Max(a, b) == IF a >= b THEN a ELSE b

MutUserUpdateFriendsLastWins(self, other) ==
    [self EXCEPT
        !.friends = other.friends,
        !.friend_count = other.friend_count,
        !.follower_count = other.follower_count,
        !.user_metadata =
            {DictUpdate(IF self.user_metadata # {}
                        THEN CHOOSE d \in self.user_metadata : TRUE ELSE {},
                        IF other.user_metadata # {}
                        THEN CHOOSE d \in other.user_metadata : TRUE ELSE {})}]

MutUserUpdateExistingWins(self, other) ==
    [self EXCEPT
        !.friends = IF self.friends = {} THEN other.friends ELSE self.friends,
        !.friend_count = other.friend_count,
        !.follower_count = other.follower_count,
        !.user_metadata =
            {DictUpdate(IF other.user_metadata # {}
                        THEN CHOOSE d \in other.user_metadata : TRUE ELSE {},
                        IF self.user_metadata # {}
                        THEN CHOOSE d \in self.user_metadata : TRUE ELSE {})}]

\* User.update (last_updated aside)
UserUpdate(self, other) ==
    LET m0 == {}
        m1 == IF self.user_metadata # {}
              THEN DictUpdate(m0, CHOOSE d \in self.user_metadata : TRUE) ELSE m0
        merged_data == IF other.user_metadata # {}
                       THEN DictUpdate(m1, CHOOSE d \in other.user_metadata : TRUE)
                       ELSE m1
    IN [self EXCEPT
           !.friends = IF self.friends = {} THEN other.friends ELSE self.friends,
           !.friend_count = other.friend_count,
           !.follower_count = other.follower_count,
           !.user_metadata = {merged_data}]

MutPostUpdateLastWins(self, other) ==
    [self EXCEPT
        !.hash_tags = self.hash_tags \cup other.hash_tags,
        !.text = IF other.text # {} THEN other.text ELSE self.text,
        !.favorite_count = other.favorite_count]

MutPostUpdateReplaceTags(self, other) ==
    [self EXCEPT
        !.hash_tags = other.hash_tags,
        !.text = IF other.text # {} THEN other.text ELSE self.text,
        !.favorite_count = Max(self.favorite_count, other.favorite_count)]

\* Post.update
PostUpdate(self, other) ==
    [self EXCEPT
        !.hash_tags = self.hash_tags \cup other.hash_tags,
        !.text = IF other.text # {} THEN other.text ELSE self.text,
        !.favorite_count = Max(self.favorite_count, other.favorite_count)]

\* AnalyticDataStore.add_or_update, and the commit its callers make
AddOrUpdate(db, obj) ==
    IF obj.kind = "User"
    THEN LET user_o == Find(db.users, obj.id)
         IN IF user_o = {} THEN [db EXCEPT !.users = @ \cup {obj}]
            ELSE [db EXCEPT !.users = (@ \ user_o)
                               \cup {UserUpdate(CHOOSE u \in user_o : TRUE, obj)}]
    ELSE LET post_o == Find(db.posts, obj.id)
         IN IF post_o = {} THEN [db EXCEPT !.posts = @ \cup {obj}]
            ELSE [db EXCEPT !.posts = (@ \ post_o)
                               \cup {PostUpdate(CHOOSE p \in post_o : TRUE, obj)}]

Tags == {"a", "b", "c"}

FavCounts == {3, 5}

Users(ids) ==
    [kind : {"User"}, id : ids,
     user_metadata : {{}, {{}}, {{<<"k", 1>>}}, {{<<"k", 2>>}}, {{<<"j", 1>>}},
                      {{<<"k", 1>>, <<"j", 1>>}}},
     friends : {{}, {<<>>}, {<<7>>}, {<<8>>}},
     friend_count : {1, 2}, follower_count : {1, 2}]

Posts(ids) ==
    [kind : {"Post"}, id : ids, hash_tags : SUBSET Tags,
     text : {{}, {""}, {"t1"}, {"t2"}}, favorite_count : FavCounts]

\* Two snapshots of one kind; the second may be of another entity.
Feeds ==
    {<<a, b>> : a \in Users({1}), b \in Users({1, 2})}
    \cup {<<a, b>> : a \in Posts({1}), b \in Posts({1, 2})}

\* One call of add_or_update with snapshot i of the feed, committed.
Ingest(i) ==
    /\ CrawlIdle /\ UNCHANGED <<rawVars, feed>>
    /\ Len(log) < MaxLog
    /\ before' = adb
    /\ adb' = AddOrUpdate(adb, feed[i])
    /\ mirror' = AddOrUpdate(mirror, feed[3 - i])
    /\ log' = Append(log, i)

MergeInit ==
    /\ CrawlInit /\ RawIdle
    /\ SchedIdle /\ UsersIdle /\ PaceIdle /\ EtlIdle
    /\ feed \in Feeds /\ log = <<>>
    /\ adb = EmptyStore /\ before = EmptyStore /\ mirror = EmptyStore

MergeNext == \E i \in 1..2 : Ingest(i)

SpecMerge == MergeInit /\ [][MergeNext]_vars

Last == feed[log[Len(log)]]

\* C8: when the latest call merged a Post into a stored row, the stored
\* hashtag set is the union and favorite_count the maximum of the row and
\* the snapshot; (5, {a,b}) followed by (3, {b,c}) leaves (5, {a,b,c}).
C8_PostMergeAccumulates ==
    (log # <<>> /\ Last.kind = "Post") =>
        \A old \in Find(before.posts, Last.id) :
            /\ Cardinality(Find(adb.posts, Last.id)) = 1
            /\ \A new \in Find(adb.posts, Last.id) :
                  /\ new.hash_tags = old.hash_tags \cup Last.hash_tags
                  /\ new.favorite_count = Max(old.favorite_count, Last.favorite_count)

\* The example of the claim: (5, {a,b}) then (3, {b,c}) stored as (5, {a,b,c}).
C8_Witness ==
    /\ log = <<1, 2>>
    /\ feed[1].kind = "Post" /\ feed[2].kind = "Post" /\ feed[1].id = feed[2].id
    /\ feed[1].favorite_count = 5 /\ feed[1].hash_tags = {"a", "b"}
    /\ feed[2].favorite_count = 3 /\ feed[2].hash_tags = {"b", "c"}
    /\ \E p \in adb.posts : p.favorite_count = 5 /\ p.hash_tags = {"a", "b", "c"}

Counted(posts) == {<<p.id, p.favorite_count, p.hash_tags>> : p \in posts}

\* C9: two snapshots of one Post ingested into the empty store leave the
\* same favorite_count and hashtag set in either order.
C9_PostMergeCommutes ==
    (Len(log) = 2 /\ log[1] # log[2] /\ feed[1].kind = "Post"
     /\ feed[1].id = feed[2].id)
        => Counted(adb.posts) = Counted(mirror.posts)

\* Both orders have run on snapshots that differ in both fields.
C9_Witness ==
    /\ log = <<1, 2>> /\ feed[1].kind = "Post" /\ feed[1].id = feed[2].id
    /\ feed[1].favorite_count > feed[2].favorite_count
    /\ ~(feed[1].hash_tags \subseteq feed[2].hash_tags)
    /\ ~(feed[2].hash_tags \subseteq feed[1].hash_tags)
    /\ Counted(adb.posts) = Counted(mirror.posts)

\* C10: a second add_or_update of the same snapshot leaves the store as the
\* first left it (the model holds only the fields the merge touches besides
\* last_updated, and the fields it never touches).
C10_IdempotentMerge ==
    (Len(log) >= 2 /\ log[Len(log)] = log[Len(log) - 1]) => adb = before

\* C11: two snapshots of one User or one Post ingested into the empty store
\* leave the same stored state in either order, on every field.
C11_OrderIndependentMerge ==
    (Len(log) = 2 /\ log[1] # log[2] /\ feed[1].id = feed[2].id) => adb = mirror

NoFriends == {{}, {<<>>}}

\* C12: an add_or_update of a User snapshot whose friends is None or empty
\* over a stored User with a non-empty friends list leaves that list as it was.
C12_FriendsNonRegression ==
    (log # <<>> /\ Last.kind = "User" /\ Last.friends \in NoFriends) =>
        \A old \in Find(before.users, Last.id) :
            old.friends \notin NoFriends =>
                /\ Find(adb.users, Last.id) # {}
                /\ \A new \in Find(adb.users, Last.id) : new.friends = old.friends

\* A stored non-empty friends list met a snapshot whose friends is None or
\* an empty list, and is still stored.
C12_Witness ==
    /\ log = <<1, 2>> /\ feed[1].kind = "User" /\ feed[1].id = feed[2].id
    /\ feed[1].friends = {<<7>>} /\ feed[2].friends \in NoFriends
    /\ \E u \in adb.users : u.friends = {<<7>>}

\* C13: when the stored User's friends is None or an empty list and the
\* snapshot has a non-empty friends list, the merge stores the snapshot's.
C13_FriendsFillIn ==
    (log # <<>> /\ Last.kind = "User" /\ Last.friends \notin NoFriends) =>
        \A old \in Find(before.users, Last.id) :
            old.friends \in NoFriends =>
                \A new \in Find(adb.users, Last.id) : new.friends = Last.friends

MapOf(m) == IF m = {} THEN {} ELSE CHOOSE d \in m : TRUE

Keys(d) == {p[1] : p \in d}

\* C14: after a User snapshot was merged into a stored User, the stored
\* metadata map has the snapshot's value for every key of the snapshot, the
\* stored value for every other key of the stored map, and no other key;
\* friend_count and follower_count are the snapshot's.
C14_UserMetadataAndCounters ==
    (log # <<>> /\ Last.kind = "User") =>
        \A old \in Find(before.users, Last.id) :
            /\ Cardinality(Find(adb.users, Last.id)) = 1
            /\ \A new \in Find(adb.users, Last.id) :
                  /\ new.user_metadata # {}
                  /\ MapOf(Last.user_metadata) \subseteq MapOf(new.user_metadata)
                  /\ \A p \in MapOf(old.user_metadata) :
                        p[1] \notin Keys(MapOf(Last.user_metadata))
                            => p \in MapOf(new.user_metadata)
                  /\ \A p \in MapOf(new.user_metadata) :
                        \/ p \in MapOf(Last.user_metadata)
                        \/ /\ p \in MapOf(old.user_metadata)
                           /\ p[1] \notin Keys(MapOf(Last.user_metadata))
                  /\ new.friend_count = Last.friend_count
                  /\ new.follower_count = Last.follower_count

\* A stored map {k: 1, j: 1} with counters (1, 1) met a snapshot {k: 2} with
\* counters (2, 2): stored {k: 2, j: 1} and (2, 2).
C14_Witness ==
    /\ Len(log) = 2 /\ Last.kind = "User"
    /\ Last.user_metadata = {{<<"k", 2>>}}
    /\ Last.friend_count = 2 /\ Last.follower_count = 2
    /\ \E old \in Find(before.users, Last.id) :
          /\ old.user_metadata = {{<<"k", 1>>, <<"j", 1>>}}
          /\ old.friend_count = 1 /\ old.follower_count = 1
    /\ \E new \in Find(adb.users, Last.id) :
          /\ new.user_metadata = {{<<"k", 2>>, <<"j", 1>>}}
          /\ new.friend_count = 2 /\ new.follower_count = 2

NoText == {{}, {""}}

\* C15: after a Post snapshot was merged into a stored Post, the stored text
\* is the snapshot's when that is non-empty, and the stored one as it was
\* when the snapshot's text is empty or None.
C15_PostTextRule ==
    (log # <<>> /\ Last.kind = "Post") =>
        \A old \in Find(before.posts, Last.id) :
            \A new \in Find(adb.posts, Last.id) :
                new.text = IF Last.text \notin NoText THEN Last.text ELSE old.text

(* ---------------------- the scheduler under a clock -------------------- *)

\* CrawlTask.timeout of the two tasks, in clock ticks
Timeout(t) == IF t = 1 THEN 2 ELSE 3

\* timedelta.seconds: the seconds of the difference within its day
Seconds(d) == d % Day

MutInTimeoutNever(last, current, timeout) == FALSE

MutInTimeoutOneShort(last, current, timeout) ==
    IF last = {} THEN FALSE
    ELSE \E T \in last : Seconds(current - T) < timeout - 1

\* Crawler.in_timeout, with last_run and datetime.now() as arguments
in_timeout(last, current, timeout) ==
    IF last = {} THEN FALSE
    ELSE \E T \in last : Seconds(current - T) < timeout

MutNextRoundKeepsAll(cs, ns) == cs

\* crawlers = next_step.copy()
next_round(cs, ns) == ns

\* The scheduler alone: the stores, the cursors and the provider stay put.
SchedOnly ==
    UNCHANGED <<provider, qmeta, data, historical, mem, qleft, num_processed,
                call, hist_finished, err, rawVars, mergeVars, userVars, paceVars,
                etlVars>>

\* CrawlerApp.crawl begins: one crawler per task, last_run None.
SchedStart ==
    /\ SchedOnly
    /\ pc = "down"
    /\ pc' = "round"
    /\ crawlers' = <<1, 2>> /\ idx' = 1 /\ next_step' = <<>>
    /\ last_run' = [t \in Tasks |-> FALSE]
    /\ ran_at' = [t \in Tasks |-> {}]
    /\ seen' = <<>> /\ retired' = {}
    /\ UNCHANGED now

\* The for loop meets a crawler whose in_timeout() is true.
SchedSkip ==
    /\ SchedOnly
    /\ pc = "round" /\ idx <= Len(crawlers)
    /\ in_timeout(ran_at[crawlers[idx]], now, Timeout(crawlers[idx]))
    /\ next_step' = Append(next_step, crawlers[idx])
    /\ seen' = Append(seen, <<crawlers[idx], "timeout">>)
    /\ idx' = idx + 1
    /\ UNCHANGED <<pc, crawlers, last_run, now, ran_at, retired>>

\* The for loop meets a crawler that is not in timeout: crawl() runs for d
\* ticks and returns r; on True the crawler is kept and last_run stamped.
SchedCrawl(r, d) ==
    /\ SchedOnly
    /\ pc = "round" /\ idx <= Len(crawlers)
    /\ ~in_timeout(ran_at[crawlers[idx]], now, Timeout(crawlers[idx]))
    /\ now + d <= MaxTime
    /\ now' = now + d
    /\ IF r
       THEN /\ next_step' = Append(next_step, crawlers[idx])
            /\ ran_at' = [ran_at EXCEPT ![crawlers[idx]] = {now + d}]
            /\ last_run' = [last_run EXCEPT ![crawlers[idx]] = TRUE]
            /\ seen' = Append(seen, <<crawlers[idx], "more">>)
            /\ UNCHANGED retired
       ELSE /\ retired' = retired \cup {crawlers[idx]}
            /\ seen' = Append(seen, <<crawlers[idx], "exhausted">>)
            /\ UNCHANGED <<next_step, ran_at, last_run>>
    /\ idx' = idx + 1
    /\ UNCHANGED <<pc, crawlers>>

\* The end of the for loop: the working set becomes next_step; the while
\* loop ends, and the process with it, when the working set is empty.
SchedEndRound ==
    /\ SchedOnly
    /\ pc = "round" /\ idx > Len(crawlers)
    /\ crawlers' = next_round(crawlers, next_step)
    /\ next_step' = <<>>
    /\ idx' = 1
    /\ seen' = <<>>
    /\ pc' = IF next_round(crawlers, next_step) = <<>> THEN "down" ELSE "round"
    /\ UNCHANGED <<last_run, now, ran_at, retired>>

\* The clock advances.
Tick ==
    /\ SchedOnly
    /\ now < MaxTime
    /\ now' = now + 1
    /\ UNCHANGED <<pc, crawlers, idx, next_step, last_run, ran_at, seen, retired>>

SchedNext ==
    \/ SchedStart
    \/ SchedSkip
    \/ \E r \in BOOLEAN : \E d \in 0..MaxTime : SchedCrawl(r, d)
    \/ SchedEndRound
    \/ Tick

SpecSched == Init /\ [][SchedNext]_vars

Considered(c) ==
    pc = "round" /\ idx <= Len(crawlers) /\ crawlers[idx] = c /\ idx' = idx + 1

\* C16: when the for loop considers a crawler whose last_run was stamped at
\* T and now - T is less than the task's timeout, the crawler is not invoked
\* and is kept for the next round.
C16_CooldownRespected ==
    [][\A c \in Tasks :
          (Considered(c) /\ \E T \in ran_at[c] : now - T < Timeout(c)) =>
              /\ seen' = Append(seen, <<c, "timeout">>)
              /\ next_step' = Append(next_step, c)
              /\ ran_at' = ran_at /\ now' = now]_vars

\* Task 1 (timeout 2) was skipped one tick after its stamp and is kept.
C16_Witness ==
    /\ pc = "round" /\ seen # <<>> /\ seen[Len(seen)] = <<1, "timeout">>
    /\ ran_at[1] = {now - 1}
    /\ next_step # <<>> /\ next_step[Len(next_step)] = 1

\* C17: a crawler that never ran is not in timeout, and a crawler that last
\* ran at T is not in timeout at any time t with t - T >= its timeout.
C17_CooldownEnds ==
    \A c \in Tasks :
        /\ ran_at[c] = {} => ~in_timeout(ran_at[c], now, Timeout(c))
        /\ \A T \in ran_at[c] :
              now - T >= Timeout(c) => ~in_timeout(ran_at[c], now, Timeout(c))

RangeOf(f) == {f[i] : i \in 1..Len(f)}

\* C18: a crawler whose crawl() returned False is not in the working set of
\* any later round of the process and is never considered again; at the end
\* of a round every crawler of the working set has been considered exactly
\* once, in order, and the next working set holds exactly those that
\* returned True or were in timeout.
C18_Retirement ==
    [][/\ \A c \in Tasks : Considered(c) =>
              /\ c \notin retired
              /\ Len(seen') = idx /\ seen'[idx][1] = c
       /\ (pc = "round" /\ idx > Len(crawlers) /\ idx' = 1) =>
              /\ [i \in 1..Len(seen) |-> seen[i][1]] = crawlers
              /\ RangeOf(crawlers') =
                     {seen[i][1] : i \in {j \in 1..Len(seen) : seen[j][2] # "exhausted"}}
              /\ RangeOf(crawlers') \cap retired = {}
              /\ Len(crawlers') = Cardinality(RangeOf(crawlers'))
      ]_vars

\* Task 1 returned False in an earlier round; a later round has considered
\* task 2 alone.
C18_Witness ==
    /\ pc = "round" /\ retired = {1}
    /\ crawlers = <<2>> /\ idx = 2 /\ Len(seen) = 1 /\ seen[1][1] = 2

(* ------------------- durability of the crawler process ----------------- *)

\* C19: a step of a running process changes the durable tables (raw objects
\* and cursor records) only when it is the commit at the end of a round, so
\* that the tables a crash leaves are those of the last completed round.
C19_RoundAtomicCommits ==
    [][(pc \in {"round", "crawl"} /\ (data' # data \/ qmeta' # qmeta))
          => (pc = "round" /\ idx > Len(crawlers))]_vars

Accepted(i) ==
    ~(TaskLanguage # "" /\ ResolvedLang(i) # TaskLanguage /\ ResolvedLang(i) # "und")

Ids(table) == {r.id : r \in table}

\* C20: no step removes a row of the durable data table, and a step inside
\* crawl() changes the durable cursor of a query only together with, or
\* after, the storing of every accepted status of the page it requested
\* (and of its author); a process killed anywhere before that leaves the
\* cursor as it was.
C20_CursorCrashSafe ==
    [][/\ Ids(data) \subseteq Ids(data')
       /\ \A q \in Queries :
             (pc = "crawl" /\ Find(qmeta', q) # Find(qmeta, q)) =>
                 /\ call'.q = q /\ pc' = "crawl"
                 /\ \A i \in RangeOf(SearchTweets(provider, q,
                                        [max_id |-> call'.max_id,
                                         since_id |-> call'.since_id])) :
                       Accepted(i) =>
                           /\ make_crawl_id(i, TRUE) \in Ids(data')
                           /\ make_crawl_id(Author(i), FALSE) \in Ids(data')
       /\ (pc = "crawl" /\ pc' = "down") => qmeta' = qmeta
      ]_vars

\* A process was killed inside its first non-empty page: statuses of the
\* page are stored, and no cursor record has moved.
C20_Witness ==
    /\ pc = "down" /\ data # {}
    /\ qmeta # {}
    /\ \A r \in qmeta : r.since_id = Null /\ r.max_id = Null

(* --------------------------- page requests ---------------------------- *)

\* The step is one iteration of the for loop of crawl() that requested a
\* page for query q.
PageStep(q) ==
    /\ pc = "crawl" /\ pc' = "crawl"
    /\ qleft # <<>> /\ Head(qleft) = q /\ call'.q = q

\* The page that request returned.
PageOf(q) ==
    SearchTweets(provider, q, [max_id |-> call'.max_id, since_id |-> call'.since_id])

LeastId(S) == CHOOSE m \in S : \A x \in S : m <= x

GreatestId(S) == CHOOSE m \in S : \A x \in S : x <= m

\* C24: after a non-empty page, in historical mode the query's max_id is the
\* least native id of the page and in incremental mode its since_id is the
\* greatest (statuses the language filter drops included), the other field
\* is as it was, and the persisted record of the query is this pair.
C24_NextCursorFromBatch ==
    [][\A q \in Queries :
          (PageStep(q) /\ PageOf(q) # <<>>) =>
              /\ historical =>
                    /\ mem'[q].max_id = Num(LeastId(RangeOf(PageOf(q))))
                    /\ mem'[q].since_id = mem[q].since_id
              /\ ~historical =>
                    /\ mem'[q].since_id = Num(GreatestId(RangeOf(PageOf(q))))
                    /\ mem'[q].max_id = mem[q].max_id
              /\ Find(qmeta', q) = {to_metadata(q, mem'[q])}]_vars

\* An incremental page of two statuses whose newest, 3, the language
\* filter dropped: the cursor in memory and on disk is 3.
C24_Witness ==
    /\ pc = "crawl" /\ ~historical /\ call.q = 3 /\ num_processed > 0
    /\ 3 \in provider /\ ~Accepted(3)
    /\ make_crawl_id(3, TRUE) \notin Ids(data)
    /\ make_crawl_id(2, TRUE) \in Ids(data)
    /\ mem[3].since_id = Num(3)
    /\ \E r \in Find(qmeta, 3) : r.since_id = Num(3)

\* C25: an empty page marks the direction being crawled and only that one:
\* in a historical run max_id becomes 'finished' and since_id stays; in an
\* incremental run since_id becomes 'finished' and max_id stays as it was.
C25_EmptyBatchMarksDirection ==
    [][\A q \in Queries :
          (PageStep(q) /\ PageOf(q) = <<>>) =>
              /\ historical =>
                    mem'[q].max_id = Finished /\ mem'[q].since_id = mem[q].since_id
              /\ ~historical =>
                    mem'[q].since_id = Finished /\ mem'[q].max_id = mem[q].max_id
      ]_vars

Numeric(c) == c.tag = "id"

\* C26: a page request with a numeric cursor c returns the newest PageSize
\* matching statuses among exactly those with id < c (historical) or id > c
\* (incremental); with a None or 'undefined' cursor, among all of them.
C26_RequestBoundaries ==
    [][\A q \in Queries :
          PageStep(q) =>
              LET c == IF historical THEN mem[q].max_id ELSE mem[q].since_id
                  admitted == {i \in provider :
                                  /\ Matches(q, i)
                                  /\ Numeric(c) =>
                                        IF historical THEN i < c.val ELSE i > c.val}
              IN (Numeric(c) \/ c \in {Null, Undefined})
                    => PageOf(q) = MostRecent(admitted, PageSize)]_vars

\* C27: within a run, a non-empty historical page moves a numeric max_id
\* strictly down and every status of the page is older than it; a non-empty
\* incremental page moves a numeric since_id strictly up and every status
\* of the page is newer than it.
C27_MonotonePagination ==
    [][\A q \in Queries :
          (PageStep(q) /\ PageOf(q) # <<>>) =>
              /\ (historical /\ Numeric(mem[q].max_id)) =>
                    /\ Numeric(mem'[q].max_id)
                    /\ mem'[q].max_id.val < mem[q].max_id.val
                    /\ \A i \in RangeOf(PageOf(q)) : i < mem[q].max_id.val
              /\ (~historical /\ Numeric(mem[q].since_id)) =>
                    /\ Numeric(mem'[q].since_id)
                    /\ mem'[q].since_id.val > mem[q].since_id.val
                    /\ \A i \in RangeOf(PageOf(q)) : i > mem[q].since_id.val
      ]_vars

\* A historical run is past its second non-empty page of query 3: the
\* request carried max_id = 1 and the cursor is now 1.
C27_Witness ==
    /\ pc = "crawl" /\ historical /\ call.q = 3 /\ num_processed > 0
    /\ call.max_id = {1} /\ mem[3].max_id = Num(1)
    /\ {make_crawl_id(1, TRUE), make_crawl_id(2, TRUE)} \subseteq Ids(data)

\* C30: at start-up, a Query id without a persisted record gets exactly one
\* record, (None, None) for the task's ('undefined', 'undefined'), and the
\* same pair in memory; a Query id with a record keeps that one record.
C30_FirstDiscovery ==
    [][(pc = "down" /\ pc' = "started") =>
          \A q \in Queries :
              /\ Find(qmeta, q) = {} =>
                    /\ Find(qmeta', q) = {[id |-> q, since_id |-> Null, max_id |-> Null]}
                    /\ mem'[q] = [since_id |-> Null, max_id |-> Null]
              /\ Find(qmeta, q) # {} => Find(qmeta', q) = Find(qmeta, q)
              /\ Cardinality(Find(qmeta', q)) = 1]_vars

\* A second start-up found the records the first one created.
C30_Witness ==
    /\ pc = "started" /\ data # {}
    /\ \A q \in Queries : Cardinality(Find(qmeta, q)) = 1
    /\ \E r \in qmeta : r.since_id = Null /\ r.max_id = Null

(* ------------------------ errors of the provider ---------------------- *)

\* The step is a page request of the crawler at idx that failed with an
\* error of class e.
Failed(e) == pc = "crawl" /\ err = "none" /\ err' = e

\* C21: when a page request of a crawler fails with an authorization or a
\* not-found error, the process stays up, the failing crawler is not kept
\* for the next round, and the other crawlers of the working set stay in it.
C21_TaskIsolation ==
    [][(Failed("unauthorized") \/ Failed("not_found")) =>
          /\ pc' \in {"round", "crawl"}
          /\ crawlers' = crawlers
          /\ crawlers[idx] \notin RangeOf(next_step')]_vars

\* C22: when a page request fails with a transient timeout, the crawler
\* stays inside crawl() at the same query with the same cursor, so that the
\* same request is issued next; it is neither skipped nor retired.
C22_TimeoutRetry ==
    [][Failed("timeout") =>
          /\ pc' = "crawl"
          /\ qleft' = qleft
          /\ mem' = mem
          /\ crawlers' = crawlers /\ idx' = idx]_vars

(* ---------------------- the user-timeline crawler --------------------- *)

\* The timeline of user u at the provider, newest first.
Timeline(u) == MostRecent({i \in StatusIds : Author(i) = u}, MaxId)

FriendLists == {<<>>, <<7>>}

\* The rows the query of TwitterUserCrawler.crawl selects.
Unexpanded(table) == {r \in table : r.api = "TwitterUser" /\ ~r.expanded}

\* One status of a timeline page (twitter.py 52-65): stored, with the
\* user's id, when its resolved language is the crawler's language.
TimelineStatus(table, u, i) ==
    LET lang == ResolvedLang(i)
    IN IF lang = TaskLanguage
       THEN [table |-> Add(table,
                           [CrawledObject(make_crawl_id(i, TRUE), "TwitterStatus",
                                          [id |-> i, user |-> [id |-> Author(i)]], lang)
                               EXCEPT !.user_id = {u}, !.given = {"user_id"}]),
             stored |-> 1]
       ELSE [table |-> table, stored |-> 0]

RECURSIVE TimelinePage(_, _, _, _)
\* The loop over the statuses of one page: the session table and count.
TimelinePage(table, u, page, count) ==
    IF page = <<>> THEN [table |-> table, count |-> count]
    ELSE LET one == TimelineStatus(table, u, Head(page))
         IN TimelinePage(one.table, u, Tail(page), count + one.stored)

UsersOnly ==
    UNCHANGED <<crawlVars, rawVars, mergeVars, schedVars, paceVars, etlVars>>

\* The `users` command is run (again): it opens the store and selects the
\* unexpanded users.
UsersStart ==
    /\ UsersOnly
    /\ u_pc \in {"idle", "done", "exited"}
    /\ u_pc' = "next"
    /\ u_sess' = u_db
    /\ u_todo' = MostRecent({r.id[3] : r \in Unexpanded(u_db)}, MaxId)
    /\ UNCHANGED <<u_db, u_left, u_count>>

\* The for loop takes the next user.
UsersNext ==
    /\ UsersOnly
    /\ u_pc = "next" /\ u_todo # <<>>
    /\ LET user == CHOOSE r \in Find(u_sess, make_crawl_id(Head(u_todo), FALSE)) : TRUE
       IN IF user.expanded
          THEN /\ u_todo' = Tail(u_todo)
               /\ UNCHANGED <<u_pc, u_left, u_count>>
          ELSE /\ u_pc' = "timeline"
               /\ u_left' = Timeline(Head(u_todo))
               /\ u_count' = 0
               /\ UNCHANGED u_todo
    /\ UNCHANGED <<u_db, u_sess>>

\* One page of the user's timeline is fetched and its statuses added to
\* the session; after the last page, or at the cap, the user is marked
\* expanded in memory and the friends are next.
UsersTimelinePage ==
    /\ UsersOnly
    /\ u_pc = "timeline"
    /\ LET u == Head(u_todo)
           n == IF Len(u_left) < PageSize THEN Len(u_left) ELSE PageSize
           done == TimelinePage(u_sess, u, SubSeq(u_left, 1, n), u_count)
           rest == SubSeq(u_left, n + 1, Len(u_left))
           user == CHOOSE r \in Find(done.table, make_crawl_id(u, FALSE)) : TRUE
       IN /\ u_count' = done.count
          /\ IF done.count >= TimelineCap \/ rest = <<>>
             THEN /\ u_pc' = "friends"
                  /\ u_left' = <<>>
                  /\ u_sess' = (done.table \ {user})
                                  \cup {[user EXCEPT !.expanded = TRUE]}
             ELSE /\ u_left' = rest
                  /\ u_sess' = done.table
                  /\ UNCHANGED u_pc
    /\ UNCHANGED <<u_db, u_todo>>

\* The friends are fetched, put into the user's document, the user is
\* added and the session committed.
UsersFriends(friends) ==
    /\ UsersOnly
    /\ u_pc = "friends"
    /\ LET user == CHOOSE r \in Find(u_sess, make_crawl_id(Head(u_todo), FALSE)) : TRUE
           live == [user EXCEPT !.document = [id |-> user.document.id,
                                              friends |-> friends]]
           obj == [id |-> live.id, api |-> live.api, document |-> live.document,
                   detected_lang |-> live.detected_lang, expanded |-> live.expanded,
                   user_id |-> live.user_id, given |-> {"expanded", "user_id"}]
           session == Add((u_sess \ {user}) \cup {live}, obj)
       IN /\ u_sess' = session
          /\ u_db' = session
    /\ u_todo' = Tail(u_todo)
    /\ u_pc' = "next"
    /\ UNCHANGED <<u_left, u_count>>

\* A request for the current user raises an error of class e: a classified
\* one is logged (a timeout is also slept on) and the for loop goes on with
\* the next user; any other closes the session and exits.
UsersFails(e) ==
    /\ UsersOnly
    /\ u_pc \in {"timeline", "friends"}
    /\ IF e = "unknown"
       THEN /\ u_sess' = u_db
            /\ u_pc' = "exited"
            /\ UNCHANGED u_todo
       ELSE /\ u_pc' = "next"
            /\ u_todo' = Tail(u_todo)
            /\ UNCHANGED u_sess
    /\ UNCHANGED <<u_db, u_left, u_count>>

\* The for loop is over; the with block closes the session.
UsersDone ==
    /\ UsersOnly
    /\ u_pc = "next" /\ u_todo = <<>>
    /\ u_pc' = "done"
    /\ u_sess' = u_db
    /\ UNCHANGED <<u_db, u_todo, u_left, u_count>>

\* The store the `tweets` command left: the rows of some fetched statuses.
UsersInit ==
    /\ CrawlInit /\ RawIdle /\ MergeIdle /\ SchedIdle /\ PaceIdle /\ EtlIdle
    /\ \E S \in SUBSET StatusIds :
          u_db = ProcessBatch(FALSE, MostRecent(S, MaxId), {}, <<Null, Null>>).table
    /\ u_sess = u_db /\ u_pc = "idle"
    /\ u_todo = <<>> /\ u_left = <<>> /\ u_count = 0

UsersNextStep ==
    \/ UsersStart
    \/ UsersNext
    \/ UsersTimelinePage
    \/ \E friends \in FriendLists : UsersFriends(friends)
    \/ \E e \in ErrorClasses : UsersFails(e)
    \/ UsersDone

SpecUsers == UsersInit /\ [][UsersNextStep]_vars

\* C23: when a request fails with an unclassified error, the process exits
\* and issues no further request; every row committed before is still in
\* the durable table, and so is every status added to the session before
\* the error (the store was flushed before it was closed).
C23_FailStop ==
    [][/\ (u_pc \in {"timeline", "friends"} /\ u_pc' = "exited") =>
              /\ u_db \subseteq u_db'
              /\ \A r \in u_sess : r.api = "TwitterStatus" => r \in u_db'
       /\ u_pc = "exited" =>
              /\ u_db' = u_db
              /\ u_pc' \in {"exited", "next"}]_vars

\* C38: a user row becomes durably expanded only by the commit that follows
\* the fetch of its own friends, which are then in its document; a user
\* whose timeline or friends request failed with a handled error is not
\* made expanded by a later commit of the run.
C38_FailedExpansionRetryable ==
    [][\A r \in u_db' :
          (r.api = "TwitterUser" /\ r.expanded
           /\ ~\E o \in Find(u_db, r.id) : o.expanded) =>
              /\ u_pc = "friends"
              /\ r.id = make_crawl_id(Head(u_todo), FALSE)
              /\ "friends" \in DOMAIN r.document]_vars

\* C29: a status of a fetched timeline page is stored by the user-timeline
\* crawler iff its resolved language is the crawler's language or 'und'.
C29_LanguageFilter ==
    [][(u_pc = "timeline" /\ u_pc' \in {"timeline", "friends"}) =>
          \A k \in 1..(IF Len(u_left) < PageSize THEN Len(u_left) ELSE PageSize) :
              (\E r \in Find(u_sess', make_crawl_id(u_left[k], TRUE)) :
                    r.user_id = {Head(u_todo)})
                <=> (ResolvedLang(u_left[k]) \in {TaskLanguage, "und"})]_vars

(* ------------------ the page requests under the clock ------------------ *)

TaskOf(q) == CHOOSE t \in Tasks : \E k \in 1..Len(TaskQueries(t)) : TaskQueries(t)[k] = q

\* time.sleep(self.task.timeout): the clock when the sleep returns
sleep(current, timeout) == current + timeout

\* The request history of a query with one more request: the last two.
Requested(h, at, empty) ==
    LET r == [at |-> at, empty |-> empty]
    IN IF h = <<>> THEN <<r>> ELSE <<h[Len(h)], r>>

PaceOnly == UNCHANGED <<rawVars, mergeVars, userVars, etlVars, err, seen, retired>>

PaceRun == PaceOnly /\ UNCHANGED provider

\* CrawlerApp.crawl begins: the store is opened, every task restored and
\* one crawler built per task, last_run None.
PaceStart(h) ==
    /\ PaceRun
    /\ pc = "down"
    /\ pc' = "round"
    /\ historical' = h
    /\ mem' = [q \in Queries |-> RestoredCursor(qmeta, q, NewQuery)]
    /\ qmeta' = RestoredTable(qmeta, [q \in Queries |-> NewQuery])
    /\ crawlers' = <<1, 2>> /\ idx' = 1 /\ next_step' = <<>>
    /\ last_run' = [t \in Tasks |-> FALSE]
    /\ ran_at' = [t \in Tasks |-> {}]
    /\ qleft' = <<>> /\ num_processed' = 0 /\ call' = NoCall
    /\ req_at' = [q \in Queries |-> <<>>]
    /\ UNCHANGED <<data, hist_finished, now>>

\* The for loop meets a crawler whose in_timeout() is true.
PaceSkip ==
    /\ PaceRun
    /\ pc = "round" /\ idx <= Len(crawlers)
    /\ in_timeout(ran_at[crawlers[idx]], now, Timeout(crawlers[idx]))
    /\ next_step' = Append(next_step, crawlers[idx])
    /\ idx' = idx + 1
    /\ call' = NoCall
    /\ UNCHANGED <<qmeta, data, pc, historical, mem, crawlers, last_run, qleft,
                   num_processed, hist_finished, now, ran_at, req_at>>

\* The for loop invokes crawl() of a crawler that is not in timeout.
PaceBegin ==
    /\ PaceRun
    /\ pc = "round" /\ idx <= Len(crawlers)
    /\ ~in_timeout(ran_at[crawlers[idx]], now, Timeout(crawlers[idx]))
    /\ pc' = "crawl"
    /\ qleft' = TaskQueries(crawlers[idx])
    /\ num_processed' = 0
    /\ call' = NoCall
    /\ UNCHANGED <<qmeta, data, historical, mem, crawlers, idx, next_step,
                   last_run, hist_finished, now, ran_at, req_at>>

\* A query the filter of crawl() drops.
PaceSkipQuery ==
    /\ PaceRun
    /\ pc = "crawl" /\ qleft # <<>>
    /\ ~_has_more(historical, mem[Head(qleft)])
    /\ qleft' = Tail(qleft)
    /\ call' = NoCall
    /\ UNCHANGED <<qmeta, data, pc, historical, mem, crawlers, idx, next_step,
                   last_run, num_processed, hist_finished, now, ran_at, req_at>>

\* One page request of crawl() at the time `now`: a non-empty page is
\* stored, the cursor saved and committed, and crawl() sleeps for the
\* task's timeout; after an empty page the loop goes on at once.
PacePage ==
    /\ PaceRun
    /\ pc = "crawl" /\ qleft # <<>>
    /\ _has_more(historical, mem[Head(qleft)])
    /\ LET q == Head(qleft)
           opts == SearchOptions(historical, mem[q])
           results == SearchTweets(provider, q, opts)
           done == ProcessBatch(historical, results, data, <<Null, Null>>)
           cursor == CursorAfterBatch(historical, mem[q], done.nxt)
       IN /\ call' = [q |-> q, max_id |-> opts.max_id, since_id |-> opts.since_id]
          /\ req_at' = [req_at EXCEPT ![q] = Requested(req_at[q], now, Len(results) = 0)]
          /\ IF Len(results) > 0
             THEN /\ sleep(now, Timeout(crawlers[idx])) <= PaceTime
                  /\ data' = done.table
                  /\ mem' = [mem EXCEPT ![q] = cursor]
                  /\ qmeta' = update_query_metadata(qmeta, to_metadata(q, cursor))
                  /\ num_processed' = num_processed + 1
                  /\ now' = sleep(now, Timeout(crawlers[idx]))
             ELSE /\ mem' = [mem EXCEPT ![q].max_id = Finished]
                  /\ UNCHANGED <<data, qmeta, num_processed, now>>
    /\ qleft' = Tail(qleft)
    /\ UNCHANGED <<pc, historical, crawlers, idx, next_step, last_run,
                   hist_finished, ran_at>>

\* crawl() returns num_processed > 0: on True the crawler is kept and
\* last_run stamped with the clock, on False it is dropped.
PaceEndCrawl ==
    /\ PaceRun
    /\ pc = "crawl" /\ qleft = <<>>
    /\ pc' = "round"
    /\ IF num_processed > 0
       THEN /\ next_step' = Append(next_step, crawlers[idx])
            /\ last_run' = [last_run EXCEPT ![crawlers[idx]] = TRUE]
            /\ ran_at' = [ran_at EXCEPT ![crawlers[idx]] = {now}]
       ELSE UNCHANGED <<next_step, last_run, ran_at>>
    /\ idx' = idx + 1
    /\ num_processed' = 0
    /\ call' = NoCall
    /\ UNCHANGED <<qmeta, data, historical, mem, crawlers, qleft, hist_finished,
                   now, req_at>>

\* The end of a round: the working set becomes next_step and the store is
\* committed; with an empty working set the process ends.
PaceEndRound ==
    /\ PaceRun
    /\ pc = "round" /\ idx > Len(crawlers)
    /\ IF next_round(crawlers, next_step) = <<>>
       THEN /\ pc' = "down"
            /\ historical' = FALSE
            /\ mem' = [q \in Queries |-> NewQuery]
            /\ ran_at' = [t \in Tasks |-> {}]
            /\ Volatile
       ELSE /\ crawlers' = next_round(crawlers, next_step)
            /\ next_step' = <<>>
            /\ idx' = 1
            /\ call' = NoCall
            /\ UNCHANGED <<pc, historical, mem, last_run, qleft, num_processed,
                           ran_at>>
    /\ hist_finished' =
          IF historical
          THEN hist_finished \cup {q \in Queries : mem[q].max_id = Finished}
          ELSE hist_finished
    /\ UNCHANGED <<qmeta, data, now, req_at>>

\* The clock advances.
PaceTick ==
    /\ PaceRun
    /\ now < PaceTime
    /\ now' = now + 1
    /\ UNCHANGED <<qmeta, data, pc, historical, mem, crawlers, idx, next_step,
                   last_run, qleft, num_processed, call, hist_finished, ran_at,
                   req_at>>

\* A new status appears at the provider, with the next native id.
PaceNewStatus ==
    /\ PaceOnly
    /\ Cardinality(provider) < MaxId
    /\ provider' = provider \cup {Cardinality(provider) + 1}
    /\ UNCHANGED <<qmeta, data, pc, historical, mem, crawlers, idx, next_step,
                   last_run, qleft, num_processed, call, hist_finished, now,
                   ran_at, req_at>>

PaceNext ==
    \/ \E h \in BOOLEAN : PaceStart(h)
    \/ PaceSkip
    \/ PaceBegin
    \/ PaceSkipQuery
    \/ PacePage
    \/ PaceEndCrawl
    \/ PaceEndRound
    \/ PaceTick
    \/ PaceNewStatus

SpecPace == Init /\ [][PaceNext]_vars

\* C28: between two consecutive page requests of a process for the same
\* query at least the timeout of the query's task elapses, whether the
\* earlier of the two pages was empty or not.
C28_Throttle ==
    \A q \in Queries :
        Len(req_at[q]) = 2 =>
            req_at[q][2].at - req_at[q][1].at >= Timeout(TaskOf(q))

\* Query 1 was requested again, in time, after a page of it came back empty.
C28_Witness ==
    /\ Len(req_at[1]) = 2 /\ req_at[1][1].empty
    /\ req_at[1][2].at - req_at[1][1].at >= Timeout(1)

(* --------------- restore_query_metadata as a function ------------------ *)

\* The values a cursor field of a Query object can hold.
CursorValues == {Null, Undefined, Finished} \cup {Num(n) : n \in 1..MaxId}

\* The values a column of a persisted record can hold.
ColumnValues == {Null, Finished} \cup {Num(n) : n \in 1..MaxId}

\* restore_query_metadata(task) is called, at start-up or when the store
\* is opened again, on the Query objects as they are.
RestoreTask ==
    /\ pc \in {"down", "started"}
    /\ pc' = "started"
    /\ mem' = [q \in Queries |-> RestoredCursor(qmeta, q, mem[q])]
    /\ qmeta' = RestoredTable(qmeta, mem)
    /\ UNCHANGED <<provider, data, historical, crawlers, idx, next_step, last_run,
                   qleft, num_processed, call, hist_finished, err,
                   rawVars, mergeVars, schedVars, userVars, paceVars, etlVars>>

\* Query 1 of task 1 holds any cursor, and the store any record of it or none.
RestoreInit ==
    /\ provider = {} /\ data = {} /\ pc = "down" /\ historical = FALSE
    /\ \E c \in [since_id : CursorValues, max_id : CursorValues] :
          mem = [q \in Queries |-> IF q = 1 THEN c ELSE NewQuery]
    /\ \/ qmeta = {}
       \/ \E s \in ColumnValues, m \in ColumnValues :
             qmeta = {[id |-> 1, since_id |-> s, max_id |-> m]}
    /\ crawlers = <<>> /\ idx = 1 /\ next_step = <<>>
    /\ last_run = [t \in Tasks |-> FALSE]
    /\ qleft = <<>> /\ num_processed = 0 /\ call = NoCall
    /\ hist_finished = {} /\ err = "none"
    /\ RawIdle /\ MergeIdle /\ SchedIdle /\ UsersIdle /\ PaceIdle /\ EtlIdle

RestoreNext == RestoreTask

SpecRestore == RestoreInit /\ [][RestoreNext]_vars

\* C31: when a record of the Query is persisted and the Query holds a
\* native id in since_id or max_id, that field holds the same id after
\* restore_query_metadata.
C31_ExplicitCursorWins ==
    [][(pc' = "started") =>
          \A q \in Queries :
              Find(qmeta, q) # {} =>
                  /\ Numeric(mem[q].since_id) => mem'[q].since_id = mem[q].since_id
                  /\ Numeric(mem[q].max_id) => mem'[q].max_id = mem[q].max_id]_vars

\* C34: a Query whose max_id is 'finished' when restore_query_metadata runs
\* has max_id 'finished' afterwards, whatever the store holds.
C34_RestoreNeverOverwritesFinished ==
    [][(pc' = "started") =>
          \A q \in Queries :
              mem[q].max_id = Finished => mem'[q].max_id = Finished]_vars

(* ------------------------ termination of a run ------------------------- *)

\* A store as a first run finds it, and a provider holding some statuses.
TermInit ==
    /\ provider \in SUBSET StatusIds
    /\ qmeta = {} /\ data = {} /\ pc = "down" /\ historical = FALSE
    /\ mem = [q \in Queries |-> NewQuery]
    /\ crawlers = <<>> /\ idx = 1 /\ next_step = <<>>
    /\ last_run = [t \in Tasks |-> FALSE]
    /\ qleft = <<>> /\ num_processed = 0 /\ call = NoCall
    /\ hist_finished = {} /\ err = "none"
    /\ RawIdle /\ MergeIdle /\ SchedIdle /\ UsersIdle /\ PaceIdle /\ EtlIdle

\* The steps of the process when nothing kills it, the provider raises no
\* error and gains no status.
TermNext ==
    \/ \E h \in BOOLEAN : Startup(h)
    \/ BuildCrawlers
    \/ SkipInTimeout
    \/ BeginCrawl
    \/ SkipQuery
    \/ CrawlPage
    \/ EndCrawl
    \/ EndRound

\* The process keeps running: some step of it is enabled in every state, so
\* weak fairness of TermNext is that steps of it keep being taken.  And a
\* crawler the loop keeps coming back to is eventually out of its timeout
\* (the clock advances, and a timeout shorter than a day ends).
SpecTerm ==
    TermInit /\ [][TermNext]_vars /\ []<><<TermNext>>_vars /\ SF_vars(BeginCrawl)

extract_twitter_user(doc) ==
    [kind |-> "User", id |-> doc.id, user_metadata |-> {},
     friends |-> IF "friends" \in DOMAIN doc THEN {doc.friends} ELSE {<<>>},
     friend_count |-> 1, follower_count |-> 1]

\* db.get_user(f"Twitter::user::{doc['user']['id']}").document
get_user(table, doc) ==
    (CHOOSE r \in Find(table, make_crawl_id(doc.user.id, FALSE)) : TRUE).document

\* TwitterStatusETL.__call__: the Post of a raw status document
ExtractPost(doc) ==
    [kind |-> "Post", id |-> doc.id, user_id |-> doc.user.id,
     hash_tags |-> IF doc.id % 2 = 0 THEN {"a"} ELSE {},
     text |-> {"t1"}, favorite_count |-> 3]

\* The document of the raw status with native id i
StatusDoc(table, i) == (CHOOSE r \in Find(table, make_crawl_id(i, TRUE)) : TRUE).document

\* crawl_db.get_data(): the native ids of the raw statuses, in table order
get_data(table) ==
    MostRecent({r.document.id : r \in {x \in table : x.api # "TwitterUser"}}, MaxId)

RECURSIVE EtlPass(_, _, _)
\* One uninterrupted pass of the etl command over the statuses `left`
EtlPass(db, table, left) ==
    IF left = <<>> THEN db
    ELSE LET doc == StatusDoc(table, Head(left))
             user == extract_twitter_user(get_user(table, doc))
         IN EtlPass(AddOrUpdate(AddOrUpdate(db, user), ExtractPost(doc)),
                    table, Tail(left))

EtlOnly ==
    UNCHANGED <<crawlVars, rawVars, schedVars, userVars, paceVars,
                feed, before, mirror, log>>

\* The etl command starts a pass over the raw statuses.
EtlStart ==
    /\ EtlOnly
    /\ etl_pc = "idle" /\ etl_pass < MaxPasses
    /\ etl_left' = get_data(data)
    /\ etl_pc' = "user"
    /\ UNCHANGED <<adb, etl_pass>>

\* The author of the next status is added or updated, and committed.
EtlUser ==
    /\ EtlOnly
    /\ etl_pc = "user" /\ etl_left # <<>>
    /\ adb' = AddOrUpdate(adb, extract_twitter_user(
                                  get_user(data, StatusDoc(data, Head(etl_left)))))
    /\ etl_pc' = "post"
    /\ UNCHANGED <<etl_left, etl_pass>>

\* The post of the status is added or updated, and committed.
EtlPost ==
    /\ EtlOnly
    /\ etl_pc = "post"
    /\ adb' = AddOrUpdate(adb, ExtractPost(StatusDoc(data, Head(etl_left))))
    /\ etl_left' = Tail(etl_left)
    /\ etl_pc' = "user"
    /\ UNCHANGED etl_pass

\* The pass has processed every status.
EtlEnd ==
    /\ EtlOnly
    /\ etl_pc = "user" /\ etl_left = <<>>
    /\ etl_pc' = "idle"
    /\ etl_pass' = etl_pass + 1
    /\ UNCHANGED <<adb, etl_left>>

\* The process is killed during a pass: what was committed stays.
EtlCrash ==
    /\ EtlOnly
    /\ etl_pc \in {"user", "post"}
    /\ etl_pc' = "idle"
    /\ etl_left' = <<>>
    /\ UNCHANGED <<adb, etl_pass>>

\* The raw store a crawl left, and an empty analytic store.
EtlInit ==
    /\ provider = {} /\ qmeta = {} /\ pc = "down" /\ historical = FALSE
    /\ \E S \in SUBSET StatusIds :
          data = ProcessBatch(FALSE, MostRecent(S, MaxId), {}, <<Null, Null>>).table
    /\ mem = [q \in Queries |-> NewQuery]
    /\ crawlers = <<>> /\ idx = 1 /\ next_step = <<>>
    /\ last_run = [t \in Tasks |-> FALSE]
    /\ qleft = <<>> /\ num_processed = 0 /\ call = NoCall
    /\ hist_finished = {} /\ err = "none"
    /\ RawIdle /\ MergeIdle /\ SchedIdle /\ UsersIdle /\ PaceIdle /\ EtlIdle

EtlNext ==
    \/ EtlStart
    \/ EtlUser
    \/ EtlPost
    \/ EtlEnd
    \/ EtlCrash

SpecEtl == EtlInit /\ [][EtlNext]_vars

\* C36: whenever a pass has run to its end, however many passes ran or
\* were cut short before, the analytic store is the store one pass over
\* the raw store leaves; and at all times there is one User row per id,
\* one Post row per id, and every Post's user_id is the id of a User row.
C36_ExactlyOnceEtl ==
    /\ (etl_pc = "idle" /\ etl_pass >= 1) =>
            adb = EtlPass(EmptyStore, data, get_data(data))
    /\ \A u1, u2 \in adb.users : u1.id = u2.id => u1 = u2
    /\ \A p1, p2 \in adb.posts : p1.id = p2.id => p1 = p2
    /\ \A p \in adb.posts : \E u \in adb.users : u.id = p.user_id

====
